---------------------------- MODULE Spec2Model ----------------------------
(***************************************************************************)
(* PRSMTECH theme compiler (themes/prsmtech/build.js): the flattener, the  *)
(* five generators, build(), watchMode() and the one-shot main program.    *)
(*                                                                         *)
(* JavaScript strings are sequences of one-character strings, so that      *)
(* startsWith, includes, template literals and join are computed on the    *)
(* characters.  JSON values are tagged records; an object keeps its keys   *)
(* in the order of the JSON text (ks) with the values beside them (vs).    *)
(***************************************************************************)
EXTENDS Integers, Sequences, FiniteSets, TLC

VARIABLES
  file,       \* themes/prsmtech/variables.json on disk
  dirExists,  \* whether CONFIG.outputDir exists
  dirLocked,  \* the environment refuses mkdirSync(CONFIG.outputDir)
  dist,       \* the files of CONFIG.outputDir, by framework
  readonly,   \* the frameworks whose destination file refuses writeFileSync
  now,        \* the wall clock read by new Date()
  mode,       \* "oneshot" | "watch" (process.argv)
  pc,         \* position of the process
  variables,  \* build(): const variables
  results,    \* build(): const results
  gi,         \* build(): position of the forEach over the generators
  ret,        \* the value build() returned last
  exitCode,   \* exit code of the process (-1 while it runs)
  watching,   \* the fs.watch listener is registered
  events,     \* fs.watch notifications not yet delivered
  edits,      \* number of changes made to variables.json so far
  out,        \* the function applied last, and what it gave
  designTokens \* index.js: the module-level cache `let designTokens`

vars == <<file, dirExists, dirLocked, dist, readonly, now, mode, pc, variables,
          results, gi, ret, exitCode, watching, events, edits, out, designTokens>>

(***************************************************************************)
(* Bounds of the model.                                                    *)
(***************************************************************************)
MaxClock == 1
MaxEdits == 2
MaxFonts == 2

(***************************************************************************)
(* Strings.                                                                *)
(***************************************************************************)
Digits == <<"0", "1", "2", "3", "4", "5", "6", "7", "8", "9">>

RECURSIVE NatToString(_)
NatToString(n) ==
  IF n < 10 THEN <<Digits[n + 1]>>
  ELSE NatToString(n \div 10) \o <<Digits[(n % 10) + 1]>>

IsDigit(c) == \E i \in 1..10 : Digits[i] = c

DigitValue(c) == (CHOOSE i \in 1..10 : Digits[i] = c) - 1

RECURSIVE StringToNat(_)
StringToNat(s) ==
  IF s = <<>> THEN 0
  ELSE 10 * StringToNat(SubSeq(s, 1, Len(s) - 1)) + DigitValue(s[Len(s)])

\* String.prototype.startsWith
startsWith(s, p) == Len(p) <= Len(s) /\ SubSeq(s, 1, Len(p)) = p

\* String.prototype.includes for a one-character needle
includesChar(s, c) == \E i \in 1..Len(s) : s[i] = c

s_DEFAULT == <<"D", "E", "F", "A", "U", "L", "T">>
s_value == <<"v", "a", "l", "u", "e">>
s_fontFamily == <<"f", "o", "n", "t", "F", "a", "m", "i", "l", "y">>
s_toString == <<"t", "o", "S", "t", "r", "i", "n", "g">>
s_colors == <<"c", "o", "l", "o", "r", "s">>
s_slide == <<"s", "l", "i", "d", "e">>
s_dark == <<"d", "a", "r", "k">>
s_typography == <<"t", "y", "p", "o", "g", "r", "a", "p", "h", "y">>
s_font == <<"f", "o", "n", "t">>
s_spacing == <<"s", "p", "a", "c", "i", "n", "g">>
s_border == <<"b", "o", "r", "d", "e", "r">>
s_shadow == <<"s", "h", "a", "d", "o", "w">>
s_transition == <<"t", "r", "a", "n", "s", "i", "t", "i", "o", "n">>
s_objectObject ==
  <<"[", "o", "b", "j", "e", "c", "t", " ", "O", "b", "j", "e", "c", "t", "]">>

(***************************************************************************)
(* JSON values, as JSON.parse returns them.                                *)
(***************************************************************************)
Str(s) == [t |-> "str", s |-> s]
Num(n) == [t |-> "num", n |-> n]
Bool(b) == [t |-> "bool", b |-> b]
Null == [t |-> "null"]
Undefined == [t |-> "undefined"]
Arr(items) == [t |-> "arr", items |-> items]
Obj(ks, vs) == [t |-> "obj", ks |-> ks, vs |-> vs]

\* the outcome of an evaluation that may throw
Ok(v) == [ok |-> TRUE, v |-> v]
Throw(m) == [ok |-> FALSE, error |-> m]

\* evaluate r, then F on its value: an exception passes through
Bind(r, F(_)) == IF r.ok THEN F(r.v) ELSE r

\* evaluate a, then b, then F on their values
Bind2(a, b, F(_, _)) == IF ~a.ok THEN a ELSE IF ~b.ok THEN b ELSE F(a.v, b.v)

\* `k in o` for a parsed object and a key that Object.prototype lacks
HasKey(o, k) == \E i \in 1..Len(o.ks) : o.ks[i] = k

\* o[k] for a parsed object
Get(o, k) ==
  IF HasKey(o, k) THEN o.vs[CHOOSE i \in 1..Len(o.ks) : o.ks[i] = k]
  ELSE Undefined

\* x.k for any parsed value that is neither null nor undefined, and a name k
\* that no built-in prototype defines
Prop(x, k) == IF x.t = "obj" THEN Get(x, k) ELSE Undefined

\* an array index in canonical form ("0", "7", "12")
IsIndexKey(k) ==
  /\ Len(k) > 0
  /\ \A i \in 1..Len(k) : IsDigit(k[i])
  /\ (Len(k) = 1 \/ k[1] # "0")

\* index keys in ascending numeric order
RECURSIVE SortIndexKeys(_)
SortIndexKeys(ks) ==
  IF ks = <<>> THEN <<>>
  ELSE LET m == CHOOSE i \in 1..Len(ks) :
                  \A j \in 1..Len(ks) : StringToNat(ks[i]) <= StringToNat(ks[j])
       IN <<ks[m]>> \o
          SortIndexKeys(SubSeq(ks, 1, m - 1) \o SubSeq(ks, m + 1, Len(ks)))

\* Object.keys of a parsed object: the index keys ascending, then the other
\* keys in the order of the text
OwnKeys(o) ==
  SortIndexKeys(SelectSeq(o.ks, IsIndexKey)) \o
  SelectSeq(o.ks, LAMBDA k : ~IsIndexKey(k))

\* the object view that Object.keys / obj[key] give of a non-null value
ToObject(x) ==
  IF x.t = "obj" THEN x
  ELSE IF x.t = "arr"
    THEN Obj([i \in 1..Len(x.items) |-> NatToString(i - 1)], x.items)
  ELSE IF x.t = "str"
    THEN Obj([i \in 1..Len(x.s) |-> NatToString(i - 1)],
             [i \in 1..Len(x.s) |-> Str(<<x.s[i]>>)])
  ELSE Obj(<<>>, <<>>)

\* ToString of a parsed value, as a template literal or join applies it.
\* A parsed object that has its own "toString" cannot be converted: the own
\* property is not callable and valueOf returns the object.
RECURSIVE JsToString(_), ArrayJoin(_, _)
JsToString(x) ==
  CASE x.t = "str" -> Ok(x.s)
    [] x.t = "num" -> Ok(NatToString(x.n))
    [] x.t = "bool" ->
         Ok(IF x.b THEN <<"t", "r", "u", "e">> ELSE <<"f", "a", "l", "s", "e">>)
    [] x.t = "null" -> Ok(<<"n", "u", "l", "l">>)
    [] x.t = "undefined" ->
         Ok(<<"u", "n", "d", "e", "f", "i", "n", "e", "d">>)
    [] x.t = "arr" -> ArrayJoin(x.items, <<",">>)
    [] x.t = "obj" ->
         IF HasKey(x, s_toString)
           THEN Throw("TypeError: Cannot convert object to primitive value")
           ELSE Ok(s_objectObject)

\* Array.prototype.join(sep): null and undefined items give ""
ArrayJoin(items, sep) ==
  IF items = <<>> THEN Ok(<<>>)
  ELSE Bind2(IF items[1].t \in {"null", "undefined"} THEN Ok(<<>>)
             ELSE JsToString(items[1]),
             ArrayJoin(Tail(items), sep),
             LAMBDA h, r : Ok(IF Len(items) = 1 THEN h ELSE h \o sep \o r))

\* JavaScript truthiness of a parsed value (the left operand of ||)
Truthy(x) ==
  CASE x.t = "str" -> x.s # <<>>
    [] x.t = "num" -> x.n # 0
    [] x.t = "bool" -> x.b
    [] x.t \in {"null", "undefined"} -> FALSE
    [] OTHER -> TRUE


(***************************************************************************)
(* flattenObject (build.js 42-74).  The accumulator `acc` and the returned *)
(* map are JavaScript objects: Obj(keys, values) in property order.        *)
(***************************************************************************)
\* acc[k] = v
Put(acc, k, v) ==
  IF HasKey(acc, k)
    THEN Obj(acc.ks, [i \in 1..Len(acc.ks) |-> IF acc.ks[i] = k THEN v ELSE acc.vs[i]])
    ELSE Obj(Append(acc.ks, k), Append(acc.vs, v))

\* Object.assign(acc, src), property by property in Object.keys(src) order
RECURSIVE AssignKeys(_, _, _)
AssignKeys(acc, src, keys) ==
  IF keys = <<>> THEN acc
  ELSE AssignKeys(Put(acc, keys[1], Get(src, keys[1])), src, Tail(keys))

ObjectAssign(acc, src) == AssignKeys(acc, src, OwnKeys(src))

\* const pre = prefix.length ? `${prefix}-` : ''
Pre(prefix) == IF Len(prefix) # 0 THEN prefix \o <<"-">> ELSE <<>>

\* typeof value === 'object' && value !== null && !Array.isArray(value)
IsPlainObject(value) == value.t = "obj"

\* key.startsWith('$')
IsMetadataKey(key) == startsWith(key, <<"$">>)

\* 'value' in value && typeof value.value === 'string'
IsValueWrapper(value) ==
  HasKey(value, s_value) /\ Get(value, s_value).t = "str"

\* 'DEFAULT' in value
HasDefault(value) == HasKey(value, s_DEFAULT)

\* typeof value === 'string' || typeof value === 'number'
IsScalar(value) == value.t \in {"str", "num"}

\* f => f.includes(' ') ? `"${f}"` : f     (one element of fonts.map)
QuoteFont(f) ==
  CASE f.t = "str" ->
         IF includesChar(f.s, " ") THEN Ok(Str(<<"\"">> \o f.s \o <<"\"">>))
         ELSE Ok(f)
    [] f.t = "arr" ->
         IF \E i \in 1..Len(f.items) : f.items[i] = Str(<<" ">>)
           THEN Bind(JsToString(f), LAMBDA sv : Ok(Str(<<"\"">> \o sv \o <<"\"">>)))
           ELSE Ok(f)
    [] f.t = "null" ->
         Throw("TypeError: Cannot read properties of null (reading 'includes')")
    [] OTHER -> Throw("TypeError: f.includes is not a function")

\* fonts.map(f => ...)
RECURSIVE MapQuoteFont(_)
MapQuoteFont(fonts) ==
  IF fonts = <<>> THEN Ok(<<>>)
  ELSE Bind2(QuoteFont(fonts[1]), MapQuoteFont(Tail(fonts)),
             LAMBDA q, rest : Ok(<<q>> \o rest))

\* Array.isArray(fonts) ? fonts.map(...).join(', ') : fonts
FontValue(fonts) ==
  IF fonts.t = "arr"
    THEN Bind(Bind(MapQuoteFont(fonts.items),
                   LAMBDA mapped : ArrayJoin(mapped, <<",", " ">>)),
              LAMBDA joined : Ok(Str(joined)))
    ELSE Ok(fonts)

\* Object.keys(value).forEach(fontKey => acc[`${pre}${key}-${fontKey}`] = ...)
RECURSIVE FontFamilyEntries(_, _, _, _)
FontFamilyEntries(acc, path, value, fontKeys) ==
  IF fontKeys = <<>> THEN Ok(acc)
  ELSE Bind(FontValue(Get(value, fontKeys[1])),
            LAMBDA fv : FontFamilyEntries(
                          Put(acc, path \o <<"-">> \o fontKeys[1], fv),
                          path, value, Tail(fontKeys)))

RECURSIVE flattenObject(_, _), flattenReduce(_, _, _, _), flattenKey(_, _, _, _)

\* the body of the reduce callback for one key
flattenKey(obj, prefix, key, acc) ==
  LET value == Get(obj, key)
      path == Pre(prefix) \o key
  IN IF IsPlainObject(value)
       THEN IF IsMetadataKey(key) THEN Ok(acc)
            ELSE IF IsValueWrapper(value)
              THEN Ok(Put(acc, path, Get(value, s_value)))
            ELSE IF HasDefault(value)
              THEN Bind(flattenObject(value, path),
                        LAMBDA sub :
                          Ok(ObjectAssign(Put(acc, path, Get(value, s_DEFAULT)),
                                          sub)))
            ELSE IF key = s_fontFamily
              THEN FontFamilyEntries(acc, path, value, OwnKeys(value))
            ELSE Bind(flattenObject(value, path),
                      LAMBDA sub : Ok(ObjectAssign(acc, sub)))
     ELSE IF IsScalar(value) THEN Ok(Put(acc, path, value))
     ELSE Ok(acc)

\* Object.keys(obj).reduce(callback, {})
flattenReduce(obj, prefix, keys, acc) ==
  IF keys = <<>> THEN Ok(acc)
  ELSE Bind(flattenKey(obj, prefix, keys[1], acc),
            LAMBDA next : flattenReduce(obj, prefix, Tail(keys), next))

flattenObject(obj, prefix) ==
  IF obj.t \in {"null", "undefined"}
    THEN Throw("TypeError: Cannot convert undefined or null to object")
    ELSE flattenReduce(ToObject(obj), prefix, OwnKeys(ToObject(obj)), Obj(<<>>, <<>>))

(***************************************************************************)
(* Property names and literals of the generators.                          *)
(***************************************************************************)
s_primary == <<"p", "r", "i", "m", "a", "r", "y">>
s_secondary == <<"s", "e", "c", "o", "n", "d", "a", "r", "y">>
s_neutral == <<"n", "e", "u", "t", "r", "a", "l">>
s_semantic == <<"s", "e", "m", "a", "n", "t", "i", "c">>
s_sans == <<"s", "a", "n", "s">>
s_heading == <<"h", "e", "a", "d", "i", "n", "g">>
s_mono == <<"m", "o", "n", "o">>
s_display == <<"d", "i", "s", "p", "l", "a", "y">>
s_fontSize == <<"f", "o", "n", "t", "S", "i", "z", "e">>
s_borderRadius ==
  <<"b", "o", "r", "d", "e", "r", "R", "a", "d", "i", "u", "s">>
s_shadows == <<"s", "h", "a", "d", "o", "w", "s">>
s_boxShadow == <<"b", "o", "x", "S", "h", "a", "d", "o", "w">>
s_dimensions == <<"d", "i", "m", "e", "n", "s", "i", "o", "n", "s">>
s_slidev == <<"s", "l", "i", "d", "e", "v">>
s_reveal == <<"r", "e", "v", "e", "a", "l">>
s_webslides == <<"w", "e", "b", "s", "l", "i", "d", "e", "s">>
s_width == <<"w", "i", "d", "t", "h">>
s_height == <<"h", "e", "i", "g", "h", "t">>
s_padding == <<"p", "a", "d", "d", "i", "n", "g">>
s_components == <<"c", "o", "m", "p", "o", "n", "e", "n", "t", "s">>
s_blockquote == <<"b", "l", "o", "c", "k", "q", "u", "o", "t", "e">>
s_borderWidth == <<"b", "o", "r", "d", "e", "r", "W", "i", "d", "t", "h">>
s_theme == <<"t", "h", "e", "m", "e">>
s_extend == <<"e", "x", "t", "e", "n", "d">>
s_prsm == <<"p", "r", "s", "m">>
s_px == <<"p", "x">>
s_40px == <<"4", "0", "p", "x">>
s_40px_80px == <<"4", "0", "p", "x", " ", "8", "0", "p", "x">>
s_80px == <<"8", "0", "p", "x">>
s_4px == <<"4", "p", "x">>
s_cssVarPrefix == <<" ", " ", "-", "-", "p", "r", "s", "m", "-">>

(***************************************************************************)
(* Expressions of the generators.                                          *)
(***************************************************************************)
\* x.k : throws on null and undefined
Member(x, k) ==
  IF x.t \in {"null", "undefined"}
    THEN Throw("TypeError: Cannot read properties of null or undefined")
    ELSE Ok(Prop(x, k))

\* x?.k
OptChain(x, k) == IF x.t \in {"null", "undefined"} THEN Undefined ELSE Prop(x, k)

\* `${x || fallback}` with a string literal fallback
OrDefault(x, fallback) == IF Truthy(x) THEN JsToString(x) ELSE Ok(fallback)

\* `${x || n}px` with a number literal fallback
OrDefaultPx(x, n) ==
  Bind(IF Truthy(x) THEN JsToString(x) ELSE Ok(NatToString(n)),
       LAMBDA sv : Ok(sv \o s_px))

\* JSON.stringify(v, null, 2), read back as the value the text denotes: the
\* properties in Object.keys order, the undefined ones left out
RECURSIVE JSONStringify(_), StringifyProps(_, _), StringifyItems(_)
JSONStringify(v) ==
  IF v.t = "obj" THEN StringifyProps(v, OwnKeys(v))
  ELSE IF v.t = "arr" THEN Arr(StringifyItems(v.items))
  ELSE v

StringifyProps(o, keys) ==
  IF keys = <<>> THEN Obj(<<>>, <<>>)
  ELSE LET rest == StringifyProps(o, Tail(keys))
           x == Get(o, keys[1])
       IN IF x.t = "undefined" THEN rest
          ELSE Obj(<<keys[1]>> \o rest.ks, <<JSONStringify(x)>> \o rest.vs)

StringifyItems(items) ==
  IF items = <<>> THEN <<>>
  ELSE <<IF items[1].t = "undefined" THEN Null ELSE JSONStringify(items[1])>>
       \o StringifyItems(Tail(items))

(***************************************************************************)
(* generateBaseCSS (build.js 79-152).  A stylesheet is the record of the   *)
(* holes of its template literal; the text between the holes is constant.  *)
(***************************************************************************)
\* Categorize with the keys that start with `shadow` pushed to the bucket
\* categories.shadows, which the template never prints
Categorize_ShadowBucket(key) ==
  IF startsWith(key, s_colors) \/ startsWith(key, s_slide) \/ startsWith(key, s_dark)
    THEN "colors"
  ELSE IF startsWith(key, s_typography) \/ startsWith(key, s_font)
    THEN "typography"
  ELSE IF startsWith(key, s_spacing) THEN "spacing"
  ELSE IF startsWith(key, s_border) THEN "borders"
  ELSE IF startsWith(key, s_shadow) THEN "shadows"
  ELSE IF startsWith(key, s_transition) THEN "transitions"
  ELSE "other"

\* first matching rule of the if / else-if chain over key.startsWith
Categorize(key) ==
  IF startsWith(key, s_colors) \/ startsWith(key, s_slide) \/ startsWith(key, s_dark)
    THEN "colors"
  ELSE IF startsWith(key, s_typography) \/ startsWith(key, s_font)
    THEN "typography"
  ELSE IF startsWith(key, s_spacing) THEN "spacing"
  ELSE IF startsWith(key, s_border) \/ startsWith(key, s_shadow) THEN "borders"
  ELSE IF startsWith(key, s_transition) THEN "transitions"
  ELSE "other"

\* const categories = { colors: [], typography: [], ... }
EmptyCategories ==
  [colors |-> <<>>, typography |-> <<>>, spacing |-> <<>>, borders |-> <<>>,
   shadows |-> <<>>, transitions |-> <<>>, other |-> <<>>]

\* const cssVar = `  --prsm-${key}: ${value};`
CssVar(key, value) ==
  Bind(JsToString(value),
       LAMBDA sv : Ok(s_cssVarPrefix \o key \o <<":", " ">> \o sv \o <<";">>))

\* Object.entries(flat).forEach(([key, value]) => { ... push ... })
RECURSIVE CategorizeEntries(_, _, _)
CategorizeEntries(flat, keys, categories) ==
  IF keys = <<>> THEN Ok(categories)
  ELSE Bind(CssVar(keys[1], Get(flat, keys[1])),
            LAMBDA line :
              CategorizeEntries(flat, Tail(keys),
                [categories EXCEPT ![Categorize(keys[1])] = Append(@, line)]))

\* the declarations of the block [data-theme="dark"], .dark, :root.dark
DarkMode ==
  <<"  --prsm-slide-background: var(--prsm-dark-background);",
    "  --prsm-slide-backgroundAlt: var(--prsm-dark-backgroundAlt);",
    "  --prsm-slide-text: var(--prsm-dark-text);",
    "  --prsm-slide-textMuted: var(--prsm-dark-textMuted);",
    "  --prsm-slide-heading: var(--prsm-dark-heading);",
    "  --prsm-slide-link: var(--prsm-dark-link);",
    "  --prsm-slide-linkHover: var(--prsm-dark-linkHover);",
    "  --prsm-slide-border: var(--prsm-dark-border);",
    "  --prsm-slide-codeBg: var(--prsm-dark-codeBg);",
    "  --prsm-slide-codeText: var(--prsm-dark-codeText);">>

\* BaseCSS with the dark-mode block printed only when the document has
\* declarations among the colors
BaseCSS_DarkFromColors(clock, categories) ==
  [generated |-> clock,
   colors |-> categories.colors,
   typography |-> categories.typography,
   spacing |-> categories.spacing,
   borders |-> categories.borders,
   transitions |-> categories.transitions,
   other |-> categories.other,
   dark |-> IF categories.colors = <<>> THEN <<>> ELSE DarkMode]

\* the text of base.css: the time stamp, the lines of each section and the
\* dark-mode block
BaseCSS(clock, categories) ==
  [generated |-> clock,
   colors |-> categories.colors,
   typography |-> categories.typography,
   spacing |-> categories.spacing,
   borders |-> categories.borders,
   transitions |-> categories.transitions,
   other |-> categories.other,
   dark |-> DarkMode]

generateBaseCSS(doc, clock) ==
  Bind(flattenObject(doc, <<>>),
       LAMBDA flat :
         Bind(CategorizeEntries(flat, OwnKeys(flat), EmptyCategories),
              LAMBDA categories : Ok(BaseCSS(clock, categories))))

(***************************************************************************)
(* The framework stylesheets (build.js 157-283, 288-487, 492-677).         *)
(***************************************************************************)
\* variables.slide?.padding?.<framework>
SlidePadding(slide, framework) == OptChain(OptChain(slide, s_padding), framework)

\* variables.slide?.dimensions?.slidev?.<side>
SlidevDimension(slide, side) ==
  OptChain(OptChain(OptChain(slide, s_dimensions), s_slidev), side)

\* variables.components?.blockquote?.borderWidth || '4px'
BlockquoteBorder(components) ==
  OrDefault(OptChain(OptChain(components, s_blockquote), s_borderWidth), s_4px)

generateSlidevCSS(doc, clock) ==
  Bind(Member(doc, s_slide),
       LAMBDA slide :
         Bind2(OrDefaultPx(SlidevDimension(slide, s_width), 980),
               OrDefaultPx(SlidevDimension(slide, s_height), 552),
               LAMBDA w, h :
                 Bind2(OrDefault(SlidePadding(slide, s_slidev), s_40px),
                       BlockquoteBorder(Prop(doc, s_components)),
                       LAMBDA p, b :
                         Ok([generated |-> clock, width |-> w, height |-> h,
                             padding |-> p, blockquoteBorder |-> b]))))

generateRevealCSS(doc, clock) ==
  Bind(Member(doc, s_slide),
       LAMBDA slide :
         Bind2(OrDefault(SlidePadding(slide, s_reveal), s_40px_80px),
               BlockquoteBorder(Prop(doc, s_components)),
               LAMBDA p, b :
                 Ok([generated |-> clock, padding |-> p, blockquoteBorder |-> b])))

generateWebSlidesCSS(doc, clock) ==
  Bind(Member(doc, s_slide),
       LAMBDA slide :
         Bind2(OrDefault(SlidePadding(slide, s_webslides), s_80px),
               BlockquoteBorder(Prop(doc, s_components)),
               LAMBDA p, b :
                 Ok([generated |-> clock, padding |-> p, blockquoteBorder |-> b])))

(***************************************************************************)
(* generateTailwindConfig (build.js 682-732).                              *)
(***************************************************************************)
\* { ...x } : the own enumerable properties of x, none for null / undefined
SpreadInto(target, x) ==
  IF x.t \in {"null", "undefined"} THEN target
  ELSE ObjectAssign(target, ToObject(x))

\* PrsmColors with the semantic entries spread first and the ramps after
PrsmColors_RampsLast(colors) ==
  ObjectAssign(SpreadInto(Obj(<<>>, <<>>), Prop(colors, s_semantic)),
               Obj(<<s_primary, s_secondary, s_neutral>>,
                   <<Prop(colors, s_primary), Prop(colors, s_secondary),
                     Prop(colors, s_neutral)>>))

\* prsm: { primary: ..., secondary: ..., neutral: ..., ...variables.colors.semantic }
PrsmColors(colors) ==
  SpreadInto(Obj(<<s_primary, s_secondary, s_neutral>>,
                 <<Prop(colors, s_primary), Prop(colors, s_secondary),
                   Prop(colors, s_neutral)>>),
             Prop(colors, s_semantic))

\* typeof val === 'object' ? val.value : val
FontSizeValue(val) ==
  IF val.t = "null"
    THEN Throw("TypeError: Cannot read properties of null (reading 'value')")
  ELSE IF val.t \in {"obj", "arr"} THEN Ok(Prop(val, s_value))
  ELSE Ok(val)

\* Object.fromEntries(Object.entries(fontSize).map(([key, val]) => [key, ...]))
RECURSIVE FontSizeEntries(_, _, _)
FontSizeEntries(fontSize, keys, acc) ==
  IF keys = <<>> THEN Ok(acc)
  ELSE Bind(FontSizeValue(Get(fontSize, keys[1])),
            LAMBDA size : FontSizeEntries(fontSize, Tail(keys),
                                          Put(acc, keys[1], size)))

FontSizes(fontSize) ==
  IF fontSize.t \in {"null", "undefined"}
    THEN Throw("TypeError: Cannot convert undefined or null to object")
    ELSE FontSizeEntries(ToObject(fontSize), OwnKeys(ToObject(fontSize)),
                         Obj(<<>>, <<>>))

\* fontFamily: { sans: ..., heading: ..., mono: ..., display: ... }
FontFamilies(fontFamily) ==
  Obj(<<s_sans, s_heading, s_mono, s_display>>,
      <<Prop(fontFamily, s_sans), Prop(fontFamily, s_heading),
        Prop(fontFamily, s_mono), Prop(fontFamily, s_display)>>)

\* const config = { theme: { extend: { ... } } }
TailwindConfig(doc, colors, fontFamily, sizes) ==
  Obj(<<s_theme>>,
      <<Obj(<<s_extend>>,
            <<Obj(<<s_colors, s_fontFamily, s_fontSize, s_borderRadius,
                    s_boxShadow>>,
                  <<Obj(<<s_prsm>>, <<PrsmColors(colors)>>),
                    FontFamilies(fontFamily),
                    sizes,
                    Prop(doc, s_borderRadius),
                    Prop(doc, s_shadows)>>)>>)>>)

generateTailwindConfig(doc, clock) ==
  Bind2(Member(doc, s_colors),
        Member(doc, s_typography),
        LAMBDA colors, typography :
          Bind2(Member(colors, s_primary),
                Member(typography, s_fontFamily),
                LAMBDA primary, fontFamily :
                  Bind2(Member(fontFamily, s_sans),
                        FontSizes(Prop(typography, s_fontSize)),
                        LAMBDA sans, sizes :
                          Ok([generated |-> clock,
                              config |-> JSONStringify(
                                TailwindConfig(doc, colors, fontFamily,
                                               sizes))]))))

(***************************************************************************)
(* build(), watchMode() and the main program (build.js 737-817).           *)
(***************************************************************************)
\* CONFIG.frameworks / the keys of `generators`, in the order of the literal
Frameworks == <<"base", "slidev", "reveal", "webslides", "tailwind">>

FrameworkSet == {Frameworks[i] : i \in 1..Len(Frameworks)}

\* const generators = { base: generateBaseCSS, ... } applied to (variables)
Generator(framework, doc, clock) ==
  CASE framework = "base" -> generateBaseCSS(doc, clock)
    [] framework = "slidev" -> generateSlidevCSS(doc, clock)
    [] framework = "reveal" -> generateRevealCSS(doc, clock)
    [] framework = "webslides" -> generateWebSlidesCSS(doc, clock)
    [] framework = "tailwind" -> generateTailwindConfig(doc, clock)

\* the states of a file: absent, present with text that JSON.parse rejects,
\* or present with the text of a JSON value
Absent == [t |-> "absent"]
Garbage == [t |-> "garbage"]

\* loadVariables that swallows the exception and returns an empty document
loadVariables_Lenient(f) ==
  IF f.t \in {"absent", "garbage"} THEN Ok(Obj(<<>>, <<>>)) ELSE Ok(f)

\* loadVariables(): readFileSync throws on an absent file, JSON.parse on text
\* that is no JSON
loadVariables(f) ==
  IF f.t = "absent" THEN Throw("ENOENT: no such file or directory")
  ELSE IF f.t = "garbage" THEN Throw("SyntaxError: Unexpected token")
  ELSE Ok(f)

\* join(CONFIG.outputDir, `${framework}${extension}`)
OutputPath(framework) ==
  "dist/" \o framework \o (IF framework = "tailwind" THEN ".config.js" ELSE ".css")

\* mkdirSync / readFileSync / JSON.parse threw out of build(): nothing
\* catches it, the process ends with exit code 1
Uncaught ==
  /\ pc' = "crashed"
  /\ exitCode' = 1

\* build() 741-748: ensure the output directory, load variables.json
BuildStart ==
  /\ pc = "build"
  /\ IF ~dirExists /\ dirLocked
       THEN /\ Uncaught
            /\ UNCHANGED <<dirExists, variables, results, gi>>
       ELSE /\ dirExists' = TRUE
            /\ LET v == loadVariables(file)
               IN IF ~v.ok
                    THEN /\ Uncaught
                         /\ UNCHANGED <<variables, results, gi>>
                    ELSE /\ variables' = v.v
                         /\ results' = <<>>
                         /\ gi' = 1
                         /\ pc' = "generate"
                         /\ UNCHANGED exitCode
  /\ UNCHANGED <<file, dirLocked, dist, readonly, now, mode, ret, watching,
                 events, edits, out, designTokens>>

\* GenerateResult without the catch branch: every record reports success
GenerateResult_AlwaysSuccess(framework, generated, writable) ==
  [framework |-> framework, success |-> TRUE, path |-> OutputPath(framework)]

\* the record pushed for one generator: try { generate; write } catch { ... }
GenerateResult(framework, generated, writable) ==
  IF ~generated.ok
    THEN [framework |-> framework, success |-> FALSE, error |-> generated.error]
  ELSE IF ~writable
    THEN [framework |-> framework, success |-> FALSE,
          error |-> "EACCES: permission denied"]
  ELSE [framework |-> framework, success |-> TRUE, path |-> OutputPath(framework)]

\* GenerateStep that opens the destination before the generator runs: a
\* failed generator leaves a file holding only the header
GenerateStep_WritesOnFailure(framework, generated) ==
  /\ results' = Append(results,
                  GenerateResult(framework, generated, framework \notin readonly))
  /\ dist' = [dist EXCEPT ![framework] =
                IF generated.ok /\ framework \notin readonly
                  THEN generated.v
                  ELSE [generated |-> now]]

\* the body of the forEach callback for one framework, given what its
\* generator returned or threw
GenerateStep(framework, generated) ==
  /\ results' = Append(results,
                  GenerateResult(framework, generated, framework \notin readonly))
  /\ dist' = IF generated.ok /\ framework \notin readonly
               THEN [dist EXCEPT ![framework] = generated.v]
               ELSE dist

\* build() 761-774: one turn of the forEach over the generators
Generate ==
  /\ pc = "generate"
  /\ GenerateStep(Frameworks[gi], Generator(Frameworks[gi], variables, now))
  /\ gi' = gi + 1
  /\ pc' = IF gi = Len(Frameworks) THEN "summary" ELSE "generate"
  /\ UNCHANGED <<file, dirExists, dirLocked, readonly, now, mode, variables, ret,
                 exitCode, watching, events, edits, out, designTokens>>

\* results.some(r => r.success) in the place of results.every
AllSucceeded_Some(rs) == \E i \in 1..Len(rs) : rs[i].success

\* results.every(r => r.success)
AllSucceeded(rs) == \A i \in 1..Len(rs) : rs[i].success

\* build() 776-790: print the summary, return
BuildReturn ==
  /\ pc = "summary"
  /\ ret' = AllSucceeded(results)
  /\ pc' = "returned"
  /\ UNCHANGED <<file, dirExists, dirLocked, dist, readonly, now, mode, variables,
                 results, gi, exitCode, watching, events, edits, out,
                 designTokens>>

\* process.exit(success ? 0 : 1)
ExitCode(success) == IF success THEN 0 ELSE 1

\* main 815-816: const success = build(); process.exit(success ? 0 : 1)
MainExit ==
  /\ pc = "returned"
  /\ mode = "oneshot"
  /\ exitCode' = ExitCode(ret)
  /\ pc' = "exited"
  /\ UNCHANGED <<file, dirExists, dirLocked, dist, readonly, now, mode, variables,
                 results, gi, ret, watching, events, edits, out, designTokens>>

\* watchMode 801: watch(CONFIG.variablesPath, listener) after the first build;
\* fs.watch throws when the path does not exist
WatchRegister ==
  /\ pc = "returned"
  /\ mode = "watch"
  /\ ~watching
  /\ IF file.t = "absent"
       THEN Uncaught /\ UNCHANGED watching
       ELSE watching' = TRUE /\ pc' = "waiting" /\ UNCHANGED exitCode
  /\ UNCHANGED <<file, dirExists, dirLocked, dist, readonly, now, mode, variables,
                 results, gi, ret, events, edits, out, designTokens>>

\* WatchEvent with the listener also run while a build() is between two of
\* its generators, as if build() gave the event loop its turn there
WatchEvent_Reentrant ==
  /\ pc \in {"waiting", "generate"}
  /\ events # <<>>
  /\ events' = Tail(events)
  /\ pc' = IF Head(events) = "change" THEN "build" ELSE pc
  /\ UNCHANGED <<file, dirExists, dirLocked, dist, readonly, now, mode, variables,
                 results, gi, ret, exitCode, watching, edits, out,
                 designTokens>>

\* watchMode 802-805: the listener; a 'change' starts build(), any other
\* event type is ignored
WatchEvent ==
  /\ pc = "waiting"
  /\ events # <<>>
  /\ events' = Tail(events)
  /\ pc' = IF Head(events) = "change" THEN "build" ELSE "waiting"
  /\ UNCHANGED <<file, dirExists, dirLocked, dist, readonly, now, mode, variables,
                 results, gi, ret, exitCode, watching, edits, out,
                 designTokens>>

\* the listener's build() returned: back to the event loop
ListenerReturn ==
  /\ pc = "returned"
  /\ mode = "watch"
  /\ watching
  /\ pc' = "waiting"
  /\ UNCHANGED <<file, dirExists, dirLocked, dist, readonly, now, mode, variables,
                 results, gi, ret, exitCode, watching, events, edits, out, designTokens>>

\* time passes; the clock is read by the generators only, so it is let to
\* advance where a generator comes next
Tick ==
  /\ pc \in {"build", "generate", "pure"}
  /\ now < MaxClock
  /\ now' = now + 1
  /\ UNCHANGED <<file, dirExists, dirLocked, dist, readonly, mode, pc, variables,
                 results, gi, ret, exitCode, watching, events, edits, out, designTokens>>

\* somebody saves (or removes) variables.json while the watcher runs; a save
\* notifies 'change', a removal 'rename'
EditFile(f) ==
  /\ mode = "watch"
  /\ pc \in {"build", "generate", "summary", "returned", "waiting"}
  /\ edits < MaxEdits
  /\ edits' = edits + 1
  /\ file' = f
  /\ events' = IF watching
                 THEN Append(events, IF f.t = "absent" THEN "rename" ELSE "change")
                 ELSE events
  /\ UNCHANGED <<dirExists, dirLocked, dist, readonly, now, mode, pc, variables,
                 results, gi, ret, exitCode, watching, out, designTokens>>

(***************************************************************************)
(* Token documents of the runs.                                            *)
(***************************************************************************)
k_a == <<"a">>
k_b == <<"b">>
k_c == <<"c">>
k_s == <<"s">>
k_t == <<"t">>
k_u == <<"u">>
k_5 == <<"5">>
k_meta == <<"$", "m">>
k_empty == <<>>
k_sm == <<"s", "m">>
k_ok == <<"o", "k">>

v_x == Str(<<"x">>)
v_y == Str(<<"y">>)
v_hex == Str(<<"#", "0", "5">>)
v_rem == Str(<<"1", "r", "e", "m">>)
v_8px == Str(<<"8", "p", "x">>)

\* a parsed object whose own "toString" makes every string conversion throw
Unprintable == Obj(<<s_toString>>, <<Num(1)>>)

f_Inter == <<"I">>
f_OpenSans == <<"O", " ", "S">>
FontNames == {f_Inter, f_OpenSans}

\* the font lists of at most MaxFonts names
FontLists ==
  UNION {{Arr([i \in 1..n |-> Str(names[i])]) : names \in [1..n -> FontNames]} :
         n \in 0..MaxFonts}

f_good == Arr(<<Str(f_Inter), Str(f_OpenSans)>>)
f_number == Arr(<<Str(f_Inter), Num(5)>>)
f_null == Arr(<<Null>>)
f_nested == Arr(<<Arr(<<Str(<<" ">>), Str(f_Inter)>>), Str(f_Inter)>>)

d_colors ==
  Obj(<<s_primary, s_semantic>>,
      <<Obj(<<s_DEFAULT, k_5>>, <<v_hex, v_hex>>), Obj(<<k_ok>>, <<v_x>>)>>)

d_typography(fonts) ==
  Obj(<<s_fontFamily, s_fontSize>>,
      <<Obj(<<s_sans>>, <<fonts>>),
        Obj(<<k_sm>>, <<Obj(<<s_value>>, <<v_rem>>)>>)>>)

d_slide(padding) == Obj(<<s_padding>>, <<padding>>)

d_doc(fonts, padding) ==
  Obj(<<s_colors, s_typography, s_slide>>,
      <<d_colors, d_typography(fonts), d_slide(padding)>>)

d_noColors(fonts, padding) ==
  Obj(<<s_typography, s_slide>>, <<d_typography(fonts), d_slide(padding)>>)

NoPadding == Obj(<<>>, <<>>)
PaddingFor(framework, v) == Obj(<<framework>>, <<v>>)

DocGood == d_doc(f_good, PaddingFor(s_reveal, v_8px))
DocBadFonts == d_doc(f_number, NoPadding)
DocBadSlidev == d_doc(f_good, PaddingFor(s_slidev, Unprintable))
DocBadReveal == d_doc(f_good, PaddingFor(s_reveal, Unprintable))
DocBadWebSlides == d_doc(f_good, PaddingFor(s_webslides, Unprintable))
DocNoColors == d_noColors(f_good, NoPadding)
DocTwoBad == d_noColors(f_number, NoPadding)

\* what variables.json can hold in the runs of the process
FileStates ==
  {Absent, Garbage, Null, DocGood, DocBadFonts, DocBadSlidev, DocBadReveal,
   DocBadWebSlides, DocNoColors, DocTwoBad}

\* what a save of variables.json puts there while the watcher runs
EditStates == {Absent, Garbage, DocGood, DocBadReveal}

\* a file of the output directory before the process starts: absent, or left
\* by an earlier run
NoFile == [t |-> "absent"]
Stale == [generated |-> -1]

(***************************************************************************)
(* The process: node themes/prsmtech/build.js [--watch].                   *)
(***************************************************************************)
NoOutput == [fn |-> "none"]

Init ==
  /\ file \in FileStates
  /\ dirExists \in BOOLEAN
  /\ dirLocked \in BOOLEAN
  /\ dirLocked => ~dirExists
  /\ dist \in {[f \in FrameworkSet |-> NoFile], [f \in FrameworkSet |-> Stale]}
  /\ ~dirExists => dist = [f \in FrameworkSet |-> NoFile]
  /\ readonly \in {{}} \cup {{f} : f \in FrameworkSet}
  /\ ~dirExists => readonly = {}
  /\ now = 0
  /\ mode \in {"oneshot", "watch"}
  /\ pc = "build"
  /\ variables = Undefined
  /\ results = <<>>
  /\ gi = 0
  /\ ret = FALSE
  /\ exitCode = -1
  /\ watching = FALSE
  /\ events = <<>>
  /\ edits = 0
  /\ out = NoOutput
  /\ designTokens = Null

Next ==
  \/ BuildStart
  \/ Generate
  \/ BuildReturn
  \/ MainExit
  \/ WatchRegister
  \/ WatchEvent
  \/ ListenerReturn
  \/ Tick
  \/ \E f \in EditStates : EditFile(f)

Spec == Init /\ [][Next]_vars

(***************************************************************************)
(* Properties of the process (Spec).                                       *)
(***************************************************************************)
\* the frameworks whose generator throws on the document build() loaded
Throwing == {f \in FrameworkSet : ~Generator(f, variables, now).ok}

\* the positions of the records marked failed, and of those marked succeeded
Failed == {i \in 1..Len(results) : ~results[i].success}
Succeeded == {i \in 1..Len(results) : results[i].success}

\* C1 (as amended): when the forEach of build() is over there are five
\* records, one per framework in the order of the registry; a record is marked
\* failed exactly when its generator threw or its file could not be written,
\* so a throw never keeps a later generator from running.  With exactly one
\* throwing generator and every destination writable, exactly one record is
\* marked failed, carrying the generator's error message, and four succeeded.
C1_Isolation ==
  pc = "summary" =>
    /\ Len(results) = Len(Frameworks)
    /\ \A i \in 1..Len(results) :
         /\ results[i].framework = Frameworks[i]
         /\ results[i].success <=>
              (Frameworks[i] \notin Throwing /\ Frameworks[i] \notin readonly)
    /\ (Cardinality(Throwing) = 1 /\ readonly = {}) =>
         /\ Cardinality(Failed) = 1
         /\ Cardinality(Succeeded) = 4
         /\ \A i \in Failed :
              /\ Frameworks[i] \in Throwing
              /\ results[i].error = Generator(Frameworks[i], variables, now).error

\* C1 as stated: whenever exactly one generator throws on the document,
\* exactly one record is marked failed and four are marked succeeded.
C1_Original ==
  (pc = "summary" /\ Cardinality(Throwing) = 1) =>
    (Cardinality(Failed) = 1 /\ Cardinality(Succeeded) = 4)

\* the third generator alone threw and the fourth and fifth ran and succeeded
C1_Witness ==
  /\ pc = "summary"
  /\ readonly = {}
  /\ Throwing = {"reveal"}
  /\ ~results[3].success
  /\ results[4].success
  /\ results[5].success

\* C3: the value build() returns is the conjunction of the five success
\* flags; the one-shot process exits with code 0 when all five generators
\* succeeded and with code 1 otherwise (an uncaught exception included), and
\* has no exit code while it runs.
C3_ExitCode ==
  /\ pc \in {"returned", "exited"} =>
       /\ Len(results) = 5
       /\ ret = (\A i \in 1..5 : results[i].success)
  /\ pc = "exited" =>
       /\ mode = "oneshot"
       /\ exitCode = IF \A i \in 1..5 : results[i].success THEN 0 ELSE 1
  /\ pc = "crashed" => exitCode = 1
  /\ pc \notin {"exited", "crashed"} => exitCode = -1

\* a one-shot run whose last generator alone failed has exited with code 1
C3_Witness ==
  /\ pc = "exited"
  /\ exitCode = 1
  /\ \A i \in 1..4 : results[i].success
  /\ ~results[5].success

\* C9 (as amended): build() itself touches the storage.  Its first step may
\* create the output directory and writes no file; each turn of its forEach
\* writes at most the file of the current framework, only when that
\* generator succeeded, with the text it generated; no step of build()
\* writes variables.json; and outside build() (main, the watcher) nothing is
\* written at all.
C9_BuildEffects ==
  [][/\ edits' = edits => file' = file
     /\ pc \notin {"build", "generate"} =>
          (dist' = dist /\ dirExists' = dirExists)
     /\ pc = "build" => (dist' = dist /\ (dirExists => dirExists'))
     /\ pc = "generate" =>
          /\ dirExists' = dirExists
          /\ \A f \in FrameworkSet :
               dist'[f] # dist[f] =>
                 /\ f = Frameworks[gi]
                 /\ Len(results') = gi
                 /\ results'[gi].success
                 /\ dist'[f] = Generator(f, variables, now).v]_vars

\* C9 as stated: from its start to its return build() creates and writes
\* nothing in the storage.
C9_NoSideEffects ==
  [][(pc \in {"build", "generate", "summary"}) =>
       (dist' = dist /\ dirExists' = dirExists)]_vars

\* build() is still running its generators and base.css is already written
C9_Witness ==
  /\ pc = "generate"
  /\ gi = 2
  /\ results[1].success
  /\ dist["base"] \notin {NoFile, Stale}
  /\ dist["slidev"] = NoFile

\* C10: a build() that finds variables.json absent or unparsable throws: the
\* process ends with exit code 1, no generator is run (no record is pushed)
\* and no file of the output directory changes; nothing runs afterwards.
C10_MissingInput ==
  [][/\ pc # "crashed"
     /\ (pc = "build" /\ file.t \in {"absent", "garbage"}
           /\ edits' = edits /\ now' = now) =>
          /\ pc' = "crashed"
          /\ exitCode' = 1
          /\ results' = results
          /\ gi' = gi
          /\ variables' = variables
          /\ dist' = dist]_vars

\* a rebuild of the watcher found unparsable text: the process has ended and
\* the files of the first build are still there
C10_Witness ==
  /\ pc = "crashed"
  /\ watching
  /\ file = Garbage
  /\ dist["base"] \notin {NoFile, Stale}

\* C11 as stated: an output directory that cannot be created, or a
\* destination that cannot be written, never makes build() throw: a build
\* that loaded its document goes on to the generators, and each record is
\* marked failed exactly when its own generator threw or its own file could
\* not be written.
C11_WriteError ==
  [][/\ (pc = "build" /\ loadVariables(file).ok
           /\ edits' = edits /\ now' = now) => pc' = "generate"
     /\ (pc = "generate" /\ gi' = gi + 1) =>
          (results'[gi].success <=>
             (Generator(Frameworks[gi], variables, now).ok
                /\ Frameworks[gi] \notin readonly))]_vars

\* C12 as stated: once the watcher is registered the process never ends by
\* itself: after every rebuild attempt it waits for the next event.
C12_WatchNeverEnds == watching => pc # "crashed"

\* C21: watch-mode passes never overlap: a pass starts from the listener
\* only when the pass before it has pushed the records of all generators
\* and returned; while a pass is in flight no notification is taken from
\* the queue and the document of the pass stays the one it loaded, and the
\* output directory is written by the generators of that pass only.
C21_NoOverlap ==
  [][/\ (pc' = "build" /\ pc # "build") =>
          (pc = "waiting" /\ Len(results) = Len(Frameworks))
     /\ (pc \in {"build", "generate", "summary", "returned"}) =>
          Len(events') >= Len(events)
     /\ (pc = "generate") =>
          (variables' = variables /\ Len(results') >= Len(results))
     /\ (dist' # dist) =>
          (pc = "generate" /\ dist'[Frameworks[gi]] =
                                Generator(Frameworks[gi], variables, now).v)]_vars

\* a rebuild is between two generators while a change of the document,
\* saved after the rebuild loaded it, waits in the queue
C21_Witness ==
  /\ watching
  /\ pc = "generate"
  /\ gi > 1
  /\ events # <<>>
  /\ Head(events) = "change"
  /\ file # variables

\* the forEach of a pass is over
PassDone ==
  pc \in {"summary", "returned", "waiting"} /\ Len(results) = Len(Frameworks)

\* the file of framework f holds text generated from the document doc
GeneratedFrom(f, doc) ==
  \E t \in 0..now :
    Generator(f, doc, t).ok /\ dist[f] = Generator(f, doc, t).v

\* C25: the turn of a generator that fails leaves its file as it was, the
\* turn of one that succeeds puts there the text generated from the
\* document of the pass, and no other file changes in that turn nor between
\* two turns; so after a pass over version v the file of a failed generator
\* still holds what the last pass in which it succeeded wrote (or is
\* absent), and the file of every succeeded generator holds text generated
\* from v.
C25_FailedFileKept ==
  [][/\ (pc = "generate" /\ gi' = gi + 1) =>
          /\ ~results'[gi].success => dist'[Frameworks[gi]] = dist[Frameworks[gi]]
          /\ results'[gi].success =>
               dist'[Frameworks[gi]] = Generator(Frameworks[gi], variables, now).v
          /\ \A f \in FrameworkSet \ {Frameworks[gi]} : dist'[f] = dist[f]
     /\ (pc # "generate" \/ gi' = gi) => dist' = dist
     /\ (pc = "generate" /\ PassDone') =>
          \A i \in 1..Len(results') :
            results'[i].success =>
              \E t \in 0..now' :
                dist'[Frameworks[i]] = Generator(Frameworks[i], variables', t).v]_vars

\* a rebuild over a second version, on which the reveal generator threw, is
\* over: reveal.css still holds the text of the first version while
\* base.css holds the text of the second
C25_Witness ==
  /\ watching
  /\ PassDone
  /\ variables = DocBadReveal
  /\ ~results[3].success
  /\ results[1].success
  /\ GeneratedFrom("reveal", DocGood)
  /\ GeneratedFrom("base", DocBadReveal)
  /\ ~GeneratedFrom("base", DocGood)

(***************************************************************************)
(* The functions on their own: flattenObject and the generators applied to *)
(* a document drawn from a set of documents.                               *)
(***************************************************************************)
k_ab == <<"a", "-", "b">>
k_as == <<"a", "-", "s">>
k_ffs == s_fontFamily \o <<"-", "s">>
k_color == <<"c", "o", "l", "o", "r">>
k_darker == s_dark \o <<"e", "r">>
k_fontX == s_font \o <<"X">>
k_zIndex == <<"z", "I", "n", "d", "e", "x">>
k_xcolors == <<"x">> \o s_colors

InnerObject == Obj(<<k_c>>, <<v_x>>)

LeafValues ==
  {v_x, Num(1), Null, Bool(TRUE), InnerObject, f_number, f_null, f_nested}
    \cup FontLists

SiblingValues == {v_y, Num(2)}

GroupKeys == {k_s, k_b, k_5, s_DEFAULT, s_value, k_meta}

\* the ordered pairs of distinct keys
KeyPairs(keys) == {p \in keys \X keys : p[1] # p[2]}

\* nested objects of one or two keys
Groups ==
  {Obj(<<k>>, <<v>>) : k \in GroupKeys, v \in LeafValues}
    \cup UNION {{Obj(p, <<v, w>>), Obj(p, <<w, v>>)} :
                  p \in KeyPairs(GroupKeys), v \in LeafValues,
                  w \in SiblingValues}

\* the places of a document where a group is put
Placed(g) ==
  {Obj(<<k>>, <<g>>) : k \in {k_a, s_fontFamily, k_meta, k_empty}}
    \cup {Obj(<<k_a, k_ab>>, <<g, v_y>>), Obj(<<k_as, k_a>>, <<v_y, g>>),
          Obj(<<s_fontFamily, k_ffs>>, <<g, v_y>>)}
    \cup {Obj(<<p>>, <<Obj(<<k>>, <<g>>)>>) :
            p \in {k_t, k_meta, s_fontFamily}, k \in {k_a, s_fontFamily}}
    \cup {Obj(<<k_t>>, <<Obj(<<w, s_fontFamily>>, <<v_x, g>>)>>) :
            w \in {s_DEFAULT, s_value}}

CategoryKeys ==
  {s_colors, s_slide, s_dark, s_typography, s_font, s_spacing, s_border,
   s_shadow, s_shadows, s_transition, s_borderRadius, s_fontSize, k_color,
   k_darker, k_fontX, k_zIndex, k_xcolors, k_a}

CategoryDocs ==
  {Obj(p, <<v_x, Obj(<<k_b>>, <<Num(1)>>)>>) : p \in KeyPairs(CategoryKeys)}

\* the documents flattenObject is applied to
IsFlattenDoc(d) ==
  \/ \E g \in Groups : d \in Placed(g)
  \/ d \in CategoryDocs
  \/ d \in FileStates \ {Absent, Garbage}
  \/ d \in {v_x, Num(1), f_good, Obj(<<>>, <<>>)}

\* values found at slide.padding.<framework>
PaddingValues ==
  {v_8px, Str(<<>>), Str(<<"0">>), Num(0), Num(7), Null, Bool(FALSE), Bool(TRUE),
   Unprintable, InnerObject, Arr(<<Num(1), Num(2)>>)}

Paddings ==
  {NoPadding}
    \cup {PaddingFor(fw, v) : fw \in {s_slidev, s_reveal, s_webslides},
                             v \in PaddingValues}
    \cup {Obj(<<s_slidev, s_reveal, s_webslides>>, <<v, v, v>>) :
            v \in PaddingValues}

\* colors.semantic: absent, null, a string, a list, and objects whose keys
\* are new or are the names of the ramps
SemanticValues ==
  {Undefined, Null, v_x, Arr(<<v_x, v_y>>), Obj(<<>>, <<>>),
   Obj(<<k_ok>>, <<v_x>>), Obj(<<s_primary>>, <<v_x>>),
   Obj(<<k_ok, s_neutral>>, <<v_x, InnerObject>>),
   Obj(<<s_secondary, s_primary>>, <<v_y, Obj(<<k_5>>, <<v_x>>)>>)}

\* colors with some of the ramps primary, secondary, neutral
RampValues ==
  {Obj(<<s_primary>>, <<Obj(<<s_DEFAULT, k_5>>, <<v_hex, v_hex>>)>>),
   Obj(<<s_secondary, s_neutral>>, <<Obj(<<k_5>>, <<v_hex>>), v_hex>>),
   Obj(<<s_primary, s_secondary, s_neutral>>,
       <<Obj(<<k_5>>, <<v_hex>>), Obj(<<k_5>>, <<v_y>>), InnerObject>>)}

WithSemantic(colors, semantic) ==
  IF semantic.t = "undefined" THEN colors
  ELSE Obj(Append(colors.ks, s_semantic), Append(colors.vs, semantic))

ColorDocs ==
  {Obj(<<s_colors, s_typography>>,
       <<WithSemantic(c, sem), d_typography(f_good)>>) :
     c \in RampValues, sem \in SemanticValues}

GenerateDocs ==
  {d_doc(f_good, p) : p \in Paddings}
    \cup {Obj(<<s_colors, s_typography, s_slide>>,
              <<d_colors, d_typography(f_good), sl>>) :
            sl \in {Null, v_x, Obj(<<s_padding>>, <<Null>>),
                    Obj(<<s_padding>>, <<v_x>>)}}
    \cup (FileStates \ {Absent, Garbage})
    \cup ColorDocs

\* one function applied to the document in `variables`
ApplyFlatten ==
  /\ pc = "pure"
  /\ out' = [fn |-> "flattenObject", res |-> flattenObject(variables, <<>>)]
  /\ UNCHANGED <<file, dirExists, dirLocked, dist, readonly, now, mode, pc,
                 variables, results, gi, ret, exitCode, watching, events, edits,
                 designTokens>>

ApplyGenerator(framework) ==
  /\ pc = "pure"
  /\ out' = [fn |-> framework, res |-> Generator(framework, variables, now)]
  /\ UNCHANGED <<file, dirExists, dirLocked, dist, readonly, now, mode, pc,
                 variables, results, gi, ret, exitCode, watching, events, edits,
                 designTokens>>

ApplyBase == ApplyGenerator("base")

InitPure ==
  /\ file = Absent
  /\ dirExists = FALSE
  /\ dirLocked = FALSE
  /\ dist = [f \in FrameworkSet |-> NoFile]
  /\ readonly = {}
  /\ now = 0
  /\ mode = "oneshot"
  /\ pc = "pure"
  /\ results = <<>>
  /\ gi = 0
  /\ ret = FALSE
  /\ exitCode = -1
  /\ watching = FALSE
  /\ events = <<>>
  /\ edits = 0
  /\ out = NoOutput
  /\ designTokens = Null

InitFlatten == IsFlattenDoc(variables) /\ InitPure

NextFlatten == ApplyFlatten \/ ApplyBase

SpecFlatten == InitFlatten /\ [][NextFlatten]_vars

InitGenerate == variables \in GenerateDocs /\ InitPure

NextGenerate == Tick \/ \E f \in FrameworkSet : ApplyGenerator(f)

SpecGenerate == InitGenerate /\ [][NextGenerate]_vars


(***************************************************************************)
(* The read path of index.js (unnamed/part_000): getDesignTokens,          *)
(* getThemePath, getThemeCSS and getCSSVariables, called by a consumer     *)
(* process while a one-shot build may be running beside it.                *)
(***************************************************************************)
s_dashes == <<"-", "-">>

\* getDesignTokens 88-93: what the call leaves in the cache, or what it throws
getDesignTokens(cache, f) ==
  IF ~Truthy(cache) /\ f.t # "absent"
    THEN IF f.t = "garbage" THEN Throw("SyntaxError: Unexpected token")
         ELSE Ok(f)
    ELSE Ok(cache)

\* framework.toLowerCase() on the identifiers a caller passes
toLowerCase(framework) ==
  CASE framework = "SLIDEV" -> "slidev"
    [] framework = "Reveal" -> "reveal"
    [] OTHER -> framework

\* the file at dist/<frameworkKey>.css: build() writes base.css, slidev.css,
\* reveal.css and webslides.css there, and tailwind.config.js
CssFile(files, frameworkKey) ==
  IF frameworkKey \in {"base", "slidev", "reveal", "webslides"}
    THEN files[frameworkKey]
    ELSE NoFile

\* getThemePath 250-260: existsSync(cssPath)
getThemePath(files, framework) ==
  CssFile(files, toLowerCase(framework)) # NoFile

\* getThemeCSS 268-273: null, or the text of the file
getThemeCSS(files, framework) ==
  IF ~getThemePath(files, framework) THEN [found |-> FALSE]
  ELSE [found |-> TRUE, css |-> CssFile(files, toLowerCase(framework))]

\* getCSSVariables 293-295: if ('DEFAULT' in value) variables[varName] = ...
AssignDefault(acc, varName, value) ==
  IF value.t = "obj" /\ HasKey(value, s_DEFAULT)
    THEN Put(acc, varName, Get(value, s_DEFAULT))
    ELSE acc

\* getCSSVariables 296-298: if ('value' in value) variables[varName] = ...
AssignValue(acc, varName, value) ==
  IF value.t = "obj" /\ HasKey(value, s_value)
    THEN Put(acc, varName, Get(value, s_value))
    ELSE acc

RECURSIVE flatten(_, _, _, _)

\* getCSSVariables 287-303: the forEach callback for one entry
flattenEntry(obj, prefix, key, acc) ==
  IF IsMetadataKey(key) THEN acc
  ELSE IF Get(obj, key).t \in {"obj", "arr"}
    THEN flatten(ToObject(Get(obj, key)), prefix \o <<"-">> \o key,
                 OwnKeys(ToObject(Get(obj, key))),
                 AssignValue(
                   AssignDefault(acc, s_dashes \o prefix \o <<"-">> \o key,
                                 Get(obj, key)),
                   s_dashes \o prefix \o <<"-">> \o key, Get(obj, key)))
  ELSE IF IsScalar(Get(obj, key))
    THEN Put(acc, s_dashes \o prefix \o <<"-">> \o key, Get(obj, key))
  ELSE acc

\* getCSSVariables 286-304: function flatten(obj, prefix), writing `variables`
flatten(obj, prefix, keys, acc) ==
  IF keys = <<>> THEN acc
  ELSE flatten(obj, prefix, Tail(keys), flattenEntry(obj, prefix, keys[1], acc))

\* getCSSVariables 280-308, given the tokens getDesignTokens returned
getCSSVariables(tokens) ==
  IF ~Truthy(tokens) THEN Obj(<<>>, <<>>)
  ELSE flatten(ToObject(tokens), s_prsm, OwnKeys(ToObject(tokens)),
               Obj(<<>>, <<>>))

\* a consumer calls getDesignTokens()
GetDesignTokens ==
  /\ out' = [fn |-> "getDesignTokens", res |-> getDesignTokens(designTokens, file)]
  /\ designTokens' = IF getDesignTokens(designTokens, file).ok
                       THEN getDesignTokens(designTokens, file).v
                       ELSE designTokens
  /\ UNCHANGED <<file, dirExists, dirLocked, dist, readonly, now, mode, pc,
                 variables, results, gi, ret, exitCode, watching, events, edits>>

\* a consumer calls getThemeCSS(framework)
GetThemeCSS(framework) ==
  /\ out' = [fn |-> "getThemeCSS", framework |-> framework,
             res |-> getThemeCSS(dist, framework)]
  /\ UNCHANGED <<file, dirExists, dirLocked, dist, readonly, now, mode, pc,
                 variables, results, gi, ret, exitCode, watching, events, edits,
                 designTokens>>

\* the result of getCSSVariables(), given what its getDesignTokens() gave
CSSVariablesResult(tokens) ==
  IF tokens.ok THEN Ok(getCSSVariables(tokens.v)) ELSE tokens

\* a consumer calls getCSSVariables()
GetCSSVariables ==
  /\ out' = [fn |-> "getCSSVariables",
             res |-> CSSVariablesResult(getDesignTokens(designTokens, file))]
  /\ designTokens' = IF getDesignTokens(designTokens, file).ok
                       THEN getDesignTokens(designTokens, file).v
                       ELSE designTokens
  /\ UNCHANGED <<file, dirExists, dirLocked, dist, readonly, now, mode, pc,
                 variables, results, gi, ret, exitCode, watching, events, edits>>

\* the identifiers passed to getThemeCSS
ThemeArguments ==
  {"slidev", "reveal", "webslides", "SLIDEV", "Reveal", "base", "tailwind"}

\* the documents of variables.json in the runs of the read path
ReadFileStates == {Absent, Garbage, Null, DocGood, DocBadReveal, DocNoColors}

InitRead ==
  /\ Init
  /\ file \in ReadFileStates
  /\ mode = "oneshot"
  /\ ~dirLocked

NextRead ==
  \/ BuildStart
  \/ Generate
  \/ BuildReturn
  \/ MainExit
  \/ Tick
  \/ GetDesignTokens
  \/ GetCSSVariables
  \/ \E framework \in ThemeArguments : GetThemeCSS(framework)

SpecRead == InitRead /\ [][NextRead]_vars

\* the frameworks FRAMEWORKS names (index.js 25-29), each with a stylesheet
SupportedFrameworks == {"slidev", "reveal", "webslides"}

\* C13 as stated: getThemeCSS works from the token document and needs no
\* earlier write: whenever it is called for a supported framework whose
\* stylesheet the document can produce, it returns CSS text, also when no
\* build has written that stylesheet to the output directory.
C13_ReadWithoutWrite ==
  (/\ out.fn = "getThemeCSS"
   /\ toLowerCase(out.framework) \in SupportedFrameworks
   /\ loadVariables(file).ok
   /\ Generator(toLowerCase(out.framework), file, now).ok)
    => out.res.found

(***************************************************************************)
(* The framework router of index.js: selectFramework(options).             *)
(***************************************************************************)
\* CONTENT_TYPES 76-82
CONTENT_TYPES ==
  {"technical", "marketing", "portfolio", "training", "corporate"}

\* FRAMEWORK_CAPABILITIES 34-71: the capability flags of each framework
FRAMEWORK_CAPABILITIES ==
  [slidev |-> [liveCode |-> TRUE, vueComponents |-> TRUE, animations |-> TRUE,
               pdfExport |-> TRUE, mermaidDiagrams |-> TRUE, latexMath |-> TRUE],
   reveal |-> [liveCode |-> FALSE, vueComponents |-> FALSE, animations |-> TRUE,
               pdfExport |-> TRUE, mermaidDiagrams |-> FALSE, latexMath |-> TRUE],
   webslides |-> [liveCode |-> FALSE, vueComponents |-> FALSE,
                  animations |-> TRUE, pdfExport |-> FALSE,
                  mermaidDiagrams |-> FALSE, latexMath |-> FALSE]]

\* const { contentType = CONTENT_TYPES.TECHNICAL, ... } = options
ContentTypeOf(options) ==
  IF options.contentType = "undefined" THEN "technical"
  ELSE options.contentType

\* selectFramework 116-164
selectFramework(options) ==
  IF options.hasLiveCode THEN "slidev"
  ELSE IF options.needsVueComponents THEN "slidev"
  ELSE IF options.hasMermaid THEN "slidev"
  ELSE IF ContentTypeOf(options) = "marketing" /\ options.responsive
    THEN "webslides"
  ELSE IF options.exportFormat = "pdf" THEN "reveal"
  ELSE IF options.hasLatex THEN "slidev"
  ELSE IF ContentTypeOf(options) = "corporate" THEN "reveal"
  ELSE "slidev"

\* the option objects a caller passes
SelectOptions ==
  [contentType : CONTENT_TYPES \cup {"undefined"},
   hasLiveCode : BOOLEAN, hasMermaid : BOOLEAN, hasLatex : BOOLEAN,
   exportFormat : {"null", "pdf", "html"},
   needsVueComponents : BOOLEAN, responsive : BOOLEAN]

\* a caller calls selectFramework(options)
SelectFramework(options) ==
  /\ out' = [fn |-> "selectFramework", options |-> options,
             res |-> selectFramework(options)]
  /\ UNCHANGED <<file, dirExists, dirLocked, dist, readonly, now, mode, pc,
                 variables, results, gi, ret, exitCode, watching, events, edits,
                 designTokens>>

NextSelect == \E options \in SelectOptions : SelectFramework(options)

InitSelect == InitPure /\ variables = Undefined

SpecSelect == InitSelect /\ [][NextSelect]_vars

\* README "Framework Selection Logic": the list read top to bottom
ReadmeDecision(options) ==
  IF options.hasLiveCode THEN "slidev"
  ELSE IF options.needsVueComponents THEN "slidev"
  ELSE IF options.hasMermaid THEN "slidev"
  ELSE IF options.exportFormat = "pdf" THEN "reveal"
  ELSE IF ContentTypeOf(options) = "marketing" THEN "webslides"
  ELSE IF ContentTypeOf(options) = "corporate" THEN "reveal"
  ELSE "slidev"

\* C14 as stated: for every combination of options selectFramework returns
\* what the README's decision list gives when read top to bottom, first
\* match winning.
C14_ReadmeOrder ==
  out.fn = "selectFramework" => out.res = ReadmeDecision(out.options)

(***************************************************************************)
(* The cache of index.js beside a watching build: the document is saved    *)
(* again while a consumer calls getDesignTokens.                           *)
(***************************************************************************)
InitReload ==
  /\ Init
  /\ file \in {DocGood, DocBadReveal}
  /\ mode = "watch"
  /\ dirExists
  /\ readonly = {}
  /\ dist = [f \in FrameworkSet |-> NoFile]

NextReload ==
  \/ BuildStart
  \/ Generate
  \/ BuildReturn
  \/ WatchRegister
  \/ WatchEvent
  \/ ListenerReturn
  \/ Tick
  \/ \E f \in EditStates : EditFile(f)
  \/ GetDesignTokens

SpecReload == InitReload /\ [][NextReload]_vars

\* the build path has reloaded the document that is on disk now, and waits
Reloaded ==
  /\ watching
  /\ pc = "waiting"
  /\ events = <<>>
  /\ loadVariables(file) = Ok(variables)

\* C22 as stated: the cache of the read path is invalidated by a reload and
\* never by a partial failure: once the changed document has been reloaded
\* getDesignTokens returns the new document, and the steps of a build, also
\* one in which a generator failed, leave the cached document unchanged.
C22_ReloadInvalidates ==
  [][/\ Reloaded' => getDesignTokens(designTokens', file') = Ok(file')
     /\ (pc \in {"build", "generate", "summary"} /\ pc' # pc) =>
          designTokens' = designTokens]_vars

\* the names the base stylesheet binds in :root for the keys of a flat map
RootNames(flat) ==
  {s_dashes \o s_prsm \o <<"-">> \o flat.ks[i] : i \in 1..Len(flat.ks)}

\* the entries --prsm-<key> -> value of a flat map are the entries of pairs
SameEntries(flat, pairs) ==
  /\ RootNames(flat) = {pairs.ks[i] : i \in 1..Len(pairs.ks)}
  /\ \A i \in 1..Len(flat.ks) :
       Get(pairs, s_dashes \o s_prsm \o <<"-">> \o flat.ks[i]) = flat.vs[i]

\* C23 as stated: for every token document getCSSVariables returns exactly
\* the entries --prsm-<key> -> value of the pairs of flattenObject(document),
\* the names and values the base stylesheet binds in :root.
C23_AgreesWithFlattener ==
  (out.fn = "getCSSVariables" /\ out.res.ok /\ designTokens.t = "obj") =>
    /\ flattenObject(designTokens, <<>>).ok
    /\ SameEntries(flattenObject(designTokens, <<>>).v, out.res.v)

\* C24 as stated: for every combination of options the framework that
\* selectFramework returns has, in FRAMEWORK_CAPABILITIES, every capability
\* the options ask for: liveCode, vueComponents, mermaidDiagrams, latexMath
\* and, for exportFormat 'pdf', pdfExport.
C24_CapabilitiesHonoured ==
  out.fn = "selectFramework" =>
    /\ out.options.hasLiveCode => FRAMEWORK_CAPABILITIES[out.res].liveCode
    /\ out.options.needsVueComponents =>
         FRAMEWORK_CAPABILITIES[out.res].vueComponents
    /\ out.options.hasMermaid => FRAMEWORK_CAPABILITIES[out.res].mermaidDiagrams
    /\ out.options.hasLatex => FRAMEWORK_CAPABILITIES[out.res].latexMath
    /\ out.options.exportFormat = "pdf" =>
         FRAMEWORK_CAPABILITIES[out.res].pdfExport

(***************************************************************************)
(* Properties of flattenObject and generateBaseCSS (SpecFlatten).          *)
(***************************************************************************)
\* a path of keys as the dashed key of the flat map
RECURSIVE DashJoin(_)
DashJoin(path) ==
  IF Len(path) = 1 THEN path[1]
  ELSE path[1] \o <<"-">> \o DashJoin(Tail(path))

\* the positions of an object whose key is no metadata key
TokenKeys(x) == {i \in 1..Len(x.ks) : ~startsWith(x.ks[i], <<"$">>)}

\* a ValueWrapper: an object with exactly a `value` key holding a scalar
IsExactValueWrapper(x) ==
  x.t = "obj" /\ x.ks = <<s_value>> /\ x.vs[1].t \in {"str", "num"}

\* the scalar leaves below x, each with its path of keys; a ValueWrapper
\* stands for one leaf at its own path
RECURSIVE ScalarLeaves(_, _)
ScalarLeaves(x, path) ==
  IF x.t \in {"str", "num"} THEN {<<path, x>>}
  ELSE IF x.t # "obj" THEN {}
  ELSE IF path # <<>> /\ IsExactValueWrapper(x) THEN {<<path, x.vs[1]>>}
  ELSE UNION {ScalarLeaves(x.vs[i], Append(path, x.ks[i])) : i \in TokenKeys(x)}

\* the nested objects below x, each with its path of keys
RECURSIVE ObjectNodes(_, _)
ObjectNodes(x, path) ==
  IF x.t # "obj" THEN {}
  ELSE (IF path = <<>> THEN {} ELSE {<<path, x>>})
         \cup UNION {ObjectNodes(x.vs[i], Append(path, x.ks[i])) :
                       i \in TokenKeys(x)}

\* flattenObject was applied to a document that is a mapping, and returned
Flattened ==
  out.fn = "flattenObject" /\ variables.t = "obj" /\ out.res.ok

\* C4 as stated: every scalar leaf reachable without a metadata key has its
\* entry in the flat map, at the dashed path of the leaf (of the parent for
\* a ValueWrapper) and holding the leaf's value: none is lost or overwritten.
C4_Completeness ==
  Flattened =>
    \A l \in ScalarLeaves(variables, <<>>) :
      /\ HasKey(out.res.v, DashJoin(l[1]))
      /\ Get(out.res.v, DashJoin(l[1])) = l[2]

\* C5 as stated: for every nested object with a (scalar) DEFAULT the flat
\* map holds the DEFAULT value at the bare dashed path, and the value of
\* every other scalar sibling at <path>-<sibling>.
C5_DefaultableGroup ==
  Flattened =>
    \A nd \in ObjectNodes(variables, <<>>) :
      (HasKey(nd[2], s_DEFAULT) /\ Get(nd[2], s_DEFAULT).t \in {"str", "num"}) =>
        /\ Get(out.res.v, DashJoin(nd[1])) = Get(nd[2], s_DEFAULT)
        /\ \A i \in TokenKeys(nd[2]) :
             (nd[2].ks[i] # s_DEFAULT /\ nd[2].vs[i].t \in {"str", "num"}) =>
               Get(out.res.v, DashJoin(Append(nd[1], nd[2].ks[i]))) = nd[2].vs[i]

\* a sequence of font-name strings
IsFontNameList(x) ==
  x.t = "arr" /\ \A i \in 1..Len(x.items) : x.items[i].t = "str"

\* the names joined by ", ", those with an embedded space in double quotes
RECURSIVE QuotedFontList(_)
QuotedFontList(items) ==
  IF items = <<>> THEN <<>>
  ELSE (IF \E i \in 1..Len(items[1].s) : items[1].s[i] = " "
          THEN <<"\"">> \o items[1].s \o <<"\"">>
          ELSE items[1].s)
       \o (IF Len(items) = 1 THEN <<>>
           ELSE <<",", " ">> \o QuotedFontList(Tail(items)))

\* C6 as stated: for every entry of an object under a key named fontFamily
\* whose value is a sequence of font-name strings, the flat map holds at
\* <path>-fontFamily-<entryKey> the names joined by ", ", quoted where they
\* contain a space.
C6_FontFamilyGroup ==
  Flattened =>
    \A nd \in ObjectNodes(variables, <<>>) :
      nd[1][Len(nd[1])] = s_fontFamily =>
        \A i \in TokenKeys(nd[2]) :
          IsFontNameList(nd[2].vs[i]) =>
            Get(out.res.v, DashJoin(Append(nd[1], nd[2].ks[i])))
              = Str(QuotedFontList(nd[2].vs[i].items))

\* the rules of the categorizer in their order: prefix, bucket
CategoryRules ==
  <<<<s_colors, "colors">>, <<s_slide, "colors">>, <<s_dark, "colors">>,
    <<s_typography, "typography">>, <<s_font, "typography">>,
    <<s_spacing, "spacing">>, <<s_border, "borders">>, <<s_shadow, "borders">>,
    <<s_transition, "transitions">>>>

\* the bucket of the first rule whose prefix the key starts with
FirstMatch(key) ==
  LET hits == {i \in 1..Len(CategoryRules) :
                 Len(CategoryRules[i][1]) <= Len(key)
                   /\ \A j \in 1..Len(CategoryRules[i][1]) :
                        key[j] = CategoryRules[i][1][j]}
  IN IF hits = {} THEN "other"
     ELSE CategoryRules[CHOOSE i \in hits : \A j \in hits : i <= j][2]

\* the declarations `  --prsm-<key>: <value>;` of the keys of one bucket, in
\* the order of the flat map
RECURSIVE BucketLines(_, _, _)
BucketLines(flat, keys, bucket) ==
  IF keys = <<>> THEN <<>>
  ELSE (IF FirstMatch(keys[1]) = bucket
          THEN <<s_cssVarPrefix \o keys[1] \o <<":", " ">>
                   \o JsToString(Get(flat, keys[1])).v \o <<";">>>>
          ELSE <<>>)
       \o BucketLines(flat, Tail(keys), bucket)

Buckets ==
  {"colors", "typography", "spacing", "borders", "transitions", "other"}

\* C7: each section of base.css holds the declarations of exactly the flat
\* keys whose first matching rule names that bucket, so every flat key is
\* declared once, in one bucket.
C7_Categorization ==
  (out.fn = "base" /\ out.res.ok) =>
    LET flat == flattenObject(variables, <<>>).v
    IN \A b \in Buckets :
         out.res.v[b] = BucketLines(flat, OwnKeys(flat), b)

\* base.css of {shadows: "x", xcolors: {b: 1}}: one declaration among the
\* borders and shadows, one among the others
C7_Witness ==
  /\ out.fn = "base"
  /\ out.res.ok
  /\ variables.t = "obj"
  /\ variables.ks = <<s_shadows, k_xcolors>>
  /\ Len(out.res.v.borders) = 1
  /\ Len(out.res.v.other) = 1
  /\ Len(out.res.v.colors) = 0

(***************************************************************************)
(* Properties of the generators (SpecGenerate).                            *)
(***************************************************************************)
\* C2 as stated: a generator applied twice to the same document, at any two
\* instants, returns the same text.
C2_Idempotence ==
  [][(out.fn # "none" /\ out'.fn = out.fn /\ out.res.ok /\ out'.res.ok) =>
       out'.res.v = out.res.v]_vars

\* the key of slide.padding and the default of each framework stylesheet
PaddingKey(fn) ==
  CASE fn = "slidev" -> s_slidev
    [] fn = "reveal" -> s_reveal
    [] fn = "webslides" -> s_webslides

DefaultPadding(fn) ==
  CASE fn = "slidev" -> <<"4", "0", "p", "x">>
    [] fn = "reveal" -> <<"4", "0", "p", "x", " ", "8", "0", "p", "x">>
    [] fn = "webslides" -> <<"8", "0", "p", "x">>

\* what the document holds at slide.padding.<framework>
SuppliedPadding(fn) ==
  Prop(Prop(Prop(variables, s_slide), s_padding), PaddingKey(fn))

\* C8 as stated: the stylesheet of a framework holds the default padding
\* when the document omits slide.padding.<framework>, and the supplied
\* string or number when the document gives one.
C8_FallbackPadding ==
  (out.fn \in {"slidev", "reveal", "webslides"} /\ out.res.ok) =>
    /\ SuppliedPadding(out.fn).t = "undefined" =>
         out.res.v.padding = DefaultPadding(out.fn)
    /\ SuppliedPadding(out.fn).t = "str" =>
         out.res.v.padding = SuppliedPadding(out.fn).s
    /\ SuppliedPadding(out.fn).t = "num" =>
         out.res.v.padding = NatToString(SuppliedPadding(out.fn).n)

\* the document without its metadata keys, at every depth
RECURSIVE StripMetadata(_)
StripMetadata(x) ==
  IF x.t # "obj" THEN x
  ELSE LET keep == SelectSeq(x.ks, LAMBDA k : ~startsWith(k, <<"$">>))
       IN Obj(keep, [i \in 1..Len(keep) |-> StripMetadata(Get(x, keep[i]))])

\* C16 as stated: no key beginning with `$`, whatever its value and depth,
\* contributes an entry to the flat map, and nothing beneath it is
\* flattened: the flat map is the one of the document without those keys.
C16_MetadataExcluded ==
  Flattened => Ok(out.res.v) = flattenObject(StripMetadata(variables), <<>>)

\* C17 as stated: for every nested object that holds exactly a `value` key
\* with a string or a number, the flat map has one entry at the parent path
\* equal to value.value, and no entry <path>-value.
C17_ValueWrapperCollapse ==
  Flattened =>
    \A nd \in ObjectNodes(variables, <<>>) :
      IsExactValueWrapper(nd[2]) =>
        /\ Get(out.res.v, DashJoin(nd[1])) = nd[2].vs[1]
        /\ ~HasKey(out.res.v, DashJoin(Append(nd[1], s_value)))

\* the arrays the flattener comes to below x, each with its path of keys
RECURSIVE ArrayLeaves(_, _)
ArrayLeaves(x, path) ==
  IF x.t = "arr" THEN {<<path, x>>}
  ELSE IF x.t # "obj" THEN {}
  ELSE UNION {ArrayLeaves(x.vs[i], Append(path, x.ks[i])) : i \in TokenKeys(x)}

\* an array that is no entry of a FontFamilyGroup, or holds a non-string
IsMalformedArray(leaf) ==
  \/ Len(leaf[1]) < 2
  \/ leaf[1][Len(leaf[1]) - 1] # s_fontFamily
  \/ ~IsFontNameList(leaf[2])

\* C18 as stated: a document with an array outside a FontFamilyGroup, or
\* with an array holding a non-string anywhere, makes flattenObject fail
\* with an error: the array is never stringified or dropped in silence.
C18_ArraysFailFast ==
  (/\ out.fn = "flattenObject"
   /\ variables.t = "obj"
   /\ \E leaf \in ArrayLeaves(variables, <<>>) : IsMalformedArray(leaf))
    => ~out.res.ok

\* C19 as stated: every value of the map flattenObject returns is a string
\* or a number, for every document: no object, array, null or undefined,
\* also in the entries of the DEFAULT promotion and of the fontFamily branch.
C19_ScalarValues ==
  (out.fn = "flattenObject" /\ out.res.ok) =>
    \A i \in 1..Len(out.res.v.vs) : out.res.v.vs[i].t \in {"str", "num"}

\* the names of the dark-mode table
DarkNames ==
  <<"background", "backgroundAlt", "text", "textMuted", "heading", "link",
    "linkHover", "border", "codeBg", "codeText">>

\* slide-scoped name -> dark-scoped name, as a declaration
DarkPair(name) ==
  "  --prsm-slide-" \o name \o ": var(--prsm-dark-" \o name \o ");"

\* C20: the dark-mode block of base.css is the table of exactly 10 pairs
\* slide-scoped -> dark-scoped (background, backgroundAlt, text, textMuted,
\* heading, link, linkHover, border, codeBg, codeText), the same for every
\* document whatever keys its flat map has.
C20_StaticDarkTable ==
  (out.fn = "base" /\ out.res.ok) =>
    /\ Len(out.res.v.dark) = 10
    /\ \A i \in 1..10 : out.res.v.dark[i] = DarkPair(DarkNames[i])

\* base.css of a document with no color, slide or dark key at all
C20_Witness ==
  /\ out.fn = "base"
  /\ out.res.ok
  /\ variables.t = "obj"
  /\ out.res.v.colors = <<>>
  /\ out.res.v.other # <<>>
  /\ Len(out.res.v.dark) = 10

(***************************************************************************)
(* Properties of generateTailwindConfig (SpecGenerate).                    *)
(***************************************************************************)
\* colors.prsm of the emitted configuration
EmittedPrsm ==
  Prop(Prop(Prop(Prop(out.res.v.config, s_theme), s_extend), s_colors), s_prsm)

RampNames == {s_primary, s_secondary, s_neutral}

\* the keys colors.semantic contributes to the spread
SemanticKeys ==
  LET sem == Prop(Prop(variables, s_colors), s_semantic)
  IN IF sem.t \in {"null", "undefined"} THEN {}
     ELSE {ToObject(sem).ks[i] : i \in 1..Len(ToObject(sem).ks)}

SemanticEntry(k) ==
  Get(ToObject(Prop(Prop(variables, s_colors), s_semantic)), k)

\* every key of colors.semantic is under colors.prsm with its document value
SemanticCopied ==
  \A k \in SemanticKeys : Prop(EmittedPrsm, k) = JSONStringify(SemanticEntry(k))

\* C15 as stated: in the emitted configuration colors.prsm.primary,
\* .secondary and .neutral equal the document's colors.primary,
\* colors.secondary and colors.neutral, and each key of colors.semantic
\* appears under colors.prsm with its document value, for every document.
C15_Verbatim ==
  (out.fn = "tailwind" /\ out.res.ok) =>
    /\ \A r \in RampNames :
         Prop(EmittedPrsm, r) = JSONStringify(Prop(Prop(variables, s_colors), r))
    /\ SemanticCopied

\* C15 amended: each key of colors.semantic appears under colors.prsm with
\* its document value, and a ramp primary, secondary or neutral equals the
\* document's ramp unless colors.semantic has an entry of that name, which
\* then takes the ramp's place.
C15_SemanticOverrides ==
  (out.fn = "tailwind" /\ out.res.ok) =>
    /\ \A r \in RampNames \ SemanticKeys :
         Prop(EmittedPrsm, r) = JSONStringify(Prop(Prop(variables, s_colors), r))
    /\ SemanticCopied

\* a configuration emitted for a document whose colors.semantic names a ramp
C15_Witness ==
  /\ out.fn = "tailwind"
  /\ out.res.ok
  /\ s_primary \in SemanticKeys
  /\ k_ok \notin SemanticKeys
  /\ Prop(Prop(variables, s_colors), s_primary).t = "obj"
  /\ Prop(EmittedPrsm, s_primary) = v_x

=============================================================================
